---- MODULE Spec2Model ----
(***************************************************************************)
(* Input selection of the wallet (src/src/shared/schema/index.js).  The    *)
(* file holds two revisions of the same library: revision 1 at lines       *)
(* 336-599 and revision 2 at lines 638-899.  Both are modelled; the        *)
(* variable rev says which one is loaded.                                  *)
(* The solver subsetSumWithLimit is also called on its own (SpecSolver),    *)
(* prepareInputs repeatedly (SpecRepeat), and isNodeSynced of              *)
(* libs/iota/extendedApi is modelled next to them (SpecSync).              *)
(***************************************************************************)
EXTENDS Integers, Sequences, FiniteSets, TLC

VARIABLES rev, fn, addressData, transactions, threshold, maxInputs, pc,
          resolved, addressDataAfterIncoming, addressDataForInputs,
          unspentAddressData, calls, result,
          closure, solver, previous, sync, inactivity

vars == <<rev, fn, addressData, transactions, threshold, maxInputs, pc,
          resolved, addressDataAfterIncoming, addressDataForInputs,
          unspentAddressData, calls, result,
          closure, solver, previous, sync, inactivity>>

(***************************************************************************)
(* Bounds of the model.                                                    *)
(***************************************************************************)
MaxPool == 4
MaxBalance == 5
MaxThreshold == 7
MaxLimit == 2
MaxWallet == 2
MaxWalletBalance == 2
MaxTxs == 1
MaxWalletThreshold == 3
MaxSolverList == 3
MaxSolverBalance == 3
MaxSolverThreshold == 4
MaxSolverCalls == 3
MaxRepeatPool == 3
MaxRepeatBalance == 3
MaxRepeatThreshold == 4
MaxOtherPool == 2
MaxMilestoneIndex == 3
MaxAge == 7
UptimeStep == 150000
MaxUptimeSteps == 4
MaxPendingUptime == 2

(***************************************************************************)
(* Program constants.                                                      *)
(***************************************************************************)
DEFAULT_SECURITY == 2
DEFAULT_MAX_INPUTS == 2
DEFAULT_LIMIT == 2
MAX_CALL_TIMES == 100000

(***************************************************************************)
(* Error messages (Errors.* of ../errors, kept by the name of the key).    *)
(***************************************************************************)
INSUFFICIENT_BALANCE == "INSUFFICIENT_BALANCE"
INPUTS_THRESHOLD_CANNOT_BE_ZERO == "INPUTS_THRESHOLD_CANNOT_BE_ZERO"
INPUTS_LIMIT_CANNOT_BE_ZERO == "INPUTS_LIMIT_CANNOT_BE_ZERO"
INVALID_MAX_INPUTS_PROVIDED == "INVALID_MAX_INPUTS_PROVIDED"
SOMETHING_WENT_WRONG_DURING_INPUT_SELECTION == "SOMETHING_WENT_WRONG_DURING_INPUT_SELECTION"
CANNOT_FIND_INPUTS_WITH_PROVIDED_LIMIT == "CANNOT_FIND_INPUTS_WITH_PROVIDED_LIMIT"
INCOMING_TRANSFERS == "INCOMING_TRANSFERS"
ADDRESS_HAS_PENDING_TRANSFERS == "ADDRESS_HAS_PENDING_TRANSFERS"
FUNDS_AT_SPENT_ADDRESSES == "FUNDS_AT_SPENT_ADDRESSES"
TYPE_ERROR == "TypeError"
COLLABORATOR_REJECTED == "COLLABORATOR_REJECTED"

(***************************************************************************)
(* JavaScript values of the limit argument.  A number is kept as twice its *)
(* value, so that 0.5 and 1.5 are integers of the model: twice = 3 is 1.5. *)
(***************************************************************************)
JsUndefined == [kind |-> "undefined", twice |-> 0]
JsNull == [kind |-> "null", twice |-> 0]
JsString == [kind |-> "string", twice |-> 0]
JsNaN == [kind |-> "NaN", twice |-> 0]
JsNumber(t) == [kind |-> "number", twice |-> t]

\* lodash isNumber: typeof value == 'number' (NaN is of type number)
isNumber(v) == v.kind \in {"number", "NaN"}

\* lodash isNull
isNull(v) == v.kind = "null"

\* a default parameter value (x = d) replaces undefined only
DefaultTo(v, d) == IF v.kind = "undefined" THEN d ELSE v

\* n > v for an integer n: v is converted with ToNumber (null is 0, a
\* non-numeric string and undefined are NaN); a comparison with NaN is false
IntGreaterThan(n, v) ==
    CASE v.kind = "number" -> 2 * n > v.twice
      [] v.kind = "null" -> n > 0
      [] OTHER -> FALSE

\* n <= v for an integer n
IntAtMost(n, v) ==
    CASE v.kind = "number" -> 2 * n <= v.twice
      [] v.kind = "null" -> n <= 0
      [] OTHER -> FALSE

\* v > 0
GreaterThanZero(v) == v.kind = "number" /\ v.twice > 0

\* v === 0
StrictlyEqualsZero(v) == v.kind = "number" /\ v.twice = 0

(***************************************************************************)
(* lodash helpers over sequences.                                          *)
(***************************************************************************)
RECURSIVE SumOf(_)
SumOf(s) == IF s = <<>> THEN 0 ELSE Head(s) + SumOf(Tail(s))

Range(s) == {s[i] : i \in DOMAIN s}

\* reduce(addressData, (acc, data) => acc + data.balance, 0)
TotalBalance(data) == SumOf([i \in DOMAIN data |-> data[i].balance])

\* differenceBy that forgets to take the selected inputs out
differenceByKeepsAll(inputs, selected) == inputs

\* differenceBy(inputs, selected, 'address')
differenceBy(inputs, selected) ==
    LET taken == {selected[i].address : i \in DOMAIN selected}
        keep(x) == x.address \notin taken
    IN SelectSeq(inputs, keep)

\* uniqBy(inputs, 'balance'): the first input of every balance, in order
RECURSIVE uniqByFrom(_, _)
uniqByFrom(inputs, seen) ==
    IF inputs = <<>> THEN <<>>
    ELSE IF Head(inputs).balance \in seen THEN uniqByFrom(Tail(inputs), seen)
         ELSE <<Head(inputs)>> \o uniqByFrom(Tail(inputs), seen \cup {Head(inputs).balance})

\* every input kept, equal balances included
uniqByKeepsAll(inputs) == inputs

uniqBy(inputs) == uniqByFrom(inputs, {})

\* head in place of minBy: the first combination recorded, of any size
minByTakesFirst(combinations) == Head(combinations)

\* the last combination of the smallest size in place of the first
minByTakesLast(combinations) ==
    LET least == CHOOSE i \in DOMAIN combinations :
                    /\ \A j \in DOMAIN combinations : Len(combinations[i]) <= Len(combinations[j])
                    /\ \A j \in (i + 1)..Len(combinations) :
                          Len(combinations[j]) > Len(combinations[i])
    IN combinations[least]

\* minBy(exceeded, size): the first combination of the smallest size
minBy(combinations) ==
    LET least == CHOOSE i \in DOMAIN combinations :
                    /\ \A j \in DOMAIN combinations : Len(combinations[i]) <= Len(combinations[j])
                    /\ \A j \in 1..(i - 1) : Len(combinations[j]) > Len(combinations[i])
    IN combinations[least]

\* includes(match, balance)
includes(match, balance) == balance \in Range(match)

Abs(n) == IF n < 0 THEN -n ELSE n

(***************************************************************************)
(* transformAddressDataToInputs (./addresses): the projection of an        *)
(* address entry to an input.                                              *)
(***************************************************************************)
transformAddressDataToInputs(data, security) ==
    [i \in DOMAIN data |->
        [address |-> data[i].address, balance |-> data[i].balance,
         security |-> security, keyIndex |-> data[i].index]]

(***************************************************************************)
(* sortInputsByOptimalValue: a copy of inputs, sorted by the distance of   *)
(* the balance to diff.  Array.prototype.sort is stable (ECMAScript 2019;  *)
(* before it, V8 sorted arrays of up to ten elements by insertion): inputs *)
(* at the same distance keep their order.                                  *)
(***************************************************************************)
RECURSIVE insertByDistance(_, _, _)
insertByDistance(sorted, x, diff) ==
    IF sorted = <<>> THEN <<x>>
    ELSE IF Abs(diff - x.balance) - Abs(diff - Head(sorted).balance) < 0
         THEN <<x>> \o sorted
         ELSE <<Head(sorted)>> \o insertByDistance(Tail(sorted), x, diff)

RECURSIVE sortFrom(_, _, _)
sortFrom(sorted, rest, diff) ==
    IF rest = <<>> THEN sorted
    ELSE sortFrom(insertByDistance(sorted, Head(rest), diff), Tail(rest), diff)

sortInputsByOptimalValue(inputs, diff) == sortFrom(<<>>, inputs, diff)

(***************************************************************************)
(* What a call gives back: a value (ok) or an error thrown/rejected.       *)
(* path says which return statement of prepareInputs was taken, callTimes  *)
(* how often the solver's calculate ran (0: the solver was not invoked).   *)
(***************************************************************************)
NoResult ==
    [status |-> "none", error |-> "", inputs |-> <<>>, balance |-> 0,
     path |-> "", callTimes |-> 0]

Thrown(error, callTimes) ==
    [status |-> "error", error |-> error, inputs |-> <<>>, balance |-> 0,
     path |-> "", callTimes |-> callTimes]

Returned(inputs, balance, path, callTimes) ==
    [status |-> "ok", error |-> "", inputs |-> inputs, balance |-> balance,
     path |-> path, callTimes |-> callTimes]

(***************************************************************************)
(* The greedy loop of prepareInputs (while availableBalance < threshold).  *)
(* head of an empty array is undefined, and reading its balance throws a   *)
(* TypeError.                                                              *)
(***************************************************************************)
\* the loop with "if" in place of "while": one pick at most
greedyLoopOnce(inputs, selectedInputsByOptimalValue, availableBalance, thresh) ==
    LET sortedInputs == sortInputsByOptimalValue(inputs, thresh - availableBalance)
    IN IF ~(availableBalance < thresh) \/ sortedInputs = <<>>
       THEN [thrown |-> FALSE, selected |-> selectedInputsByOptimalValue,
             availableBalance |-> availableBalance]
       ELSE [thrown |-> FALSE,
             selected |-> Append(selectedInputsByOptimalValue, Head(sortedInputs)),
             availableBalance |-> availableBalance + Head(sortedInputs).balance]

RECURSIVE greedyLoop(_, _, _, _)
greedyLoop(inputs, selectedInputsByOptimalValue, availableBalance, thresh) ==
    IF ~(availableBalance < thresh)
    THEN [thrown |-> FALSE, selected |-> selectedInputsByOptimalValue,
          availableBalance |-> availableBalance]
    ELSE LET sortedInputs ==
                 sortInputsByOptimalValue(
                     differenceBy(inputs, selectedInputsByOptimalValue),
                     thresh - availableBalance)
         IN IF sortedInputs = <<>>
            THEN [thrown |-> TRUE, selected |-> selectedInputsByOptimalValue,
                  availableBalance |-> availableBalance]
            ELSE greedyLoop(inputs,
                            Append(selectedInputsByOptimalValue, Head(sortedInputs)),
                            availableBalance + Head(sortedInputs).balance,
                            thresh)

(***************************************************************************)
(* subsetSumWithLimit: the closure's variables are the record st; calculate*)
(* gives back st as it leaves it and whether it returned the result record *)
(* (returned) or undefined.  The variable closure holds the variables of   *)
(* the closure made last.                                                  *)
(***************************************************************************)
SolverInit ==
    [hasFoundAnExactMatch |-> FALSE, hasFoundNoMatches |-> FALSE,
     exactMatches |-> <<>>, exceeded |-> <<>>, callTimes |-> 0, sizeOfBalances |-> 0,
     maxCallTimes |-> MAX_CALL_TIMES]

\* the variables kept at module level: a call goes on with what the last left
moduleVariables(kept, maxCallTimes) == [kept EXCEPT !.maxCallTimes = maxCallTimes]

\* subsetSumWithLimit(limit, MAX_CALL_TIMES): the variables of a new closure
closureVariables(kept, maxCallTimes) == [SolverInit EXCEPT !.maxCallTimes = maxCallTimes]

RECURSIVE calculate(_, _, _, _, _)
RECURSIVE eachBalance(_, _, _, _, _, _)

\* each without the break at an exact match
eachBalanceNoBreak(st, limit, balances, thresh, partial, index) ==
    IF index >= Len(balances) THEN st
    ELSE LET st1 == IF index = st.sizeOfBalances - 1
                    THEN [st EXCEPT !.hasFoundNoMatches = TRUE]
                    ELSE st
             st2 == calculate(st1, limit,
                              SubSeq(balances, index + 2, Len(balances)),
                              thresh,
                              Append(partial, balances[index + 1])).st
         IN eachBalance(st2, limit, balances, thresh, partial, index + 1)

\* each(balances, (balance, index) => ...), from position index (0-based)
eachBalance(st, limit, balances, thresh, partial, index) ==
    IF index >= Len(balances) THEN st
    ELSE IF st.hasFoundAnExactMatch THEN st
    ELSE LET st1 == IF index = st.sizeOfBalances - 1
                    THEN [st EXCEPT !.hasFoundNoMatches = TRUE]
                    ELSE st
             st2 == calculate(st1, limit,
                              SubSeq(balances, index + 2, Len(balances)),
                              thresh,
                              Append(partial, balances[index + 1])).st
         IN eachBalance(st2, limit, balances, thresh, partial, index + 1)

\* calculate going on below a partial sum that has passed the threshold
calculateNoPrune(st, limit, balances, thresh, partial) ==
    LET st1 == [st EXCEPT !.callTimes = st.callTimes + 1]
        st2 == IF st1.callTimes = 1
               THEN [st1 EXCEPT !.sizeOfBalances = Len(balances)]
               ELSE st1
        sizeOfPartial == Len(partial)
        sum == SumOf(partial)
        st3 == IF sum = thresh /\ IntAtMost(sizeOfPartial, limit)
               THEN [st2 EXCEPT !.exactMatches = Append(st2.exactMatches, partial),
                                !.hasFoundAnExactMatch = TRUE]
               ELSE st2
        st4 == IF sum > thresh /\ IntAtMost(sizeOfPartial, limit)
               THEN [st3 EXCEPT !.exceeded = Append(st3.exceeded, partial)]
               ELSE st3
    IN IF sum = thresh
       THEN [st |-> st4, returned |-> FALSE]
       ELSE LET st5 == eachBalance(st4, limit, balances, thresh, partial, 0)
            IN [st |-> st5,
                returned |-> \/ st5.hasFoundAnExactMatch
                             \/ st5.hasFoundNoMatches
                             \/ st5.callTimes = st5.maxCallTimes]

calculate(st, limit, balances, thresh, partial) ==
    LET st1 == [st EXCEPT !.callTimes = st.callTimes + 1]
        st2 == IF st1.callTimes = 1
               THEN [st1 EXCEPT !.sizeOfBalances = Len(balances)]
               ELSE st1
        sizeOfPartial == Len(partial)
        sum == SumOf(partial)
        st3 == IF sum = thresh /\ IntAtMost(sizeOfPartial, limit)
               THEN [st2 EXCEPT !.exactMatches = Append(st2.exactMatches, partial),
                                !.hasFoundAnExactMatch = TRUE]
               ELSE st2
        st4 == IF sum > thresh /\ IntAtMost(sizeOfPartial, limit)
               THEN [st3 EXCEPT !.exceeded = Append(st3.exceeded, partial)]
               ELSE st3
    IN IF sum >= thresh
       THEN [st |-> st4, returned |-> FALSE]
       ELSE LET st5 == eachBalance(st4, limit, balances, thresh, partial, 0)
            IN [st |-> st5,
                returned |-> \/ st5.hasFoundAnExactMatch
                             \/ st5.hasFoundNoMatches
                             \/ st5.callTimes = st5.maxCallTimes]

\* subsetSumWithLimit(limit, maxCallTimes)(balances, threshold)
subsetSumWithLimitAndCalls(limit, maxCallTimes, balances, thresh) ==
    calculate(closureVariables(closure, maxCallTimes), limit, balances, thresh, <<>>)

\* subsetSumWithLimit(limit)(balances, threshold)
subsetSumWithLimit(limit, balances, thresh) ==
    subsetSumWithLimitAndCalls(limit, MAX_CALL_TIMES, balances, thresh)

(***************************************************************************)
(* The branch of prepareInputs taken when the greedy selection is larger   *)
(* than the limit; the same text in both revisions.                        *)
(***************************************************************************)
\* the inputs (of unique balances) whose balance is in the combination
inputsOfCombination(inputsWithUniqueBalances, combination) ==
    LET keep(input) == includes(combination, input.balance)
    IN SelectSeq(inputsWithUniqueBalances, keep)

findSetWithMinSize(inputsWithUniqueBalances, exceeded, thresh, limit, callTimes) ==
    LET inputsWithMinSize == minBy(exceeded)
        finalInputs == inputsOfCombination(inputsWithUniqueBalances, inputsWithMinSize)
        balance == SumOf([i \in DOMAIN finalInputs |-> finalInputs[i].balance])
    IN IF balance <= thresh \/ IntGreaterThan(Len(inputsWithMinSize), limit)
       THEN Thrown(SOMETHING_WENT_WRONG_DURING_INPUT_SELECTION, callTimes)
       ELSE Returned(finalInputs, balance, "exceeded", callTimes)

\* subsetSumWithLimit(maxInputs)(map(inputsWithUniqueBalances, balance), threshold)
solveForSelection(inputs, thresh, limit) ==
    LET inputsWithUniqueBalances == uniqBy(inputs)
    IN subsetSumWithLimit(
           limit,
           [i \in DOMAIN inputsWithUniqueBalances |->
               inputsWithUniqueBalances[i].balance],
           thresh)

\* the branch with the error of the consistency checks for an empty search
selectWithinLimitGenericError(inputs, thresh, limit) ==
    LET inputsWithUniqueBalances == uniqBy(inputs)
        solved == solveForSelection(inputs, thresh, limit)
        exactMatches == solved.st.exactMatches
        exceeded == solved.st.exceeded
        callTimes == solved.st.callTimes
    IN IF ~solved.returned
       THEN \* destructuring undefined
            Thrown(TYPE_ERROR, callTimes)
       ELSE IF Len(exactMatches) > 0
       THEN LET match == Head(exactMatches)
                inputsWithExactMatch == inputsOfCombination(inputsWithUniqueBalances, match)
                balance == SumOf([i \in DOMAIN inputsWithExactMatch |->
                                     inputsWithExactMatch[i].balance])
            IN IF balance # thresh
               THEN Thrown(SOMETHING_WENT_WRONG_DURING_INPUT_SELECTION, callTimes)
               ELSE Returned(inputsWithExactMatch, balance, "exact", callTimes)
       ELSE IF Len(exceeded) > 0
       THEN findSetWithMinSize(inputsWithUniqueBalances, exceeded, thresh, limit, callTimes)
       ELSE Thrown(SOMETHING_WENT_WRONG_DURING_INPUT_SELECTION, callTimes)

selectWithinLimit(inputs, thresh, limit) ==
    LET inputsWithUniqueBalances == uniqBy(inputs)
        solved == solveForSelection(inputs, thresh, limit)
        exactMatches == solved.st.exactMatches
        exceeded == solved.st.exceeded
        callTimes == solved.st.callTimes
    IN IF ~solved.returned
       THEN \* destructuring undefined
            Thrown(TYPE_ERROR, callTimes)
       ELSE IF Len(exactMatches) > 0
       THEN LET match == Head(exactMatches)
                inputsWithExactMatch == inputsOfCombination(inputsWithUniqueBalances, match)
                balance == SumOf([i \in DOMAIN inputsWithExactMatch |->
                                     inputsWithExactMatch[i].balance])
            IN IF balance # thresh
               THEN Thrown(SOMETHING_WENT_WRONG_DURING_INPUT_SELECTION, callTimes)
               ELSE Returned(inputsWithExactMatch, balance, "exact", callTimes)
       ELSE IF Len(exceeded) > 0
       THEN findSetWithMinSize(inputsWithUniqueBalances, exceeded, thresh, limit, callTimes)
       ELSE Thrown(CANNOT_FIND_INPUTS_WITH_PROVIDED_LIMIT, callTimes)

\* the inputs of every address, those of balance 0 included
eligibleInputsZeroIncluded(data, security) ==
    transformAddressDataToInputs(data, security)

\* filter(transformAddressDataToInputs(addressData, security), balance > 0)
eligibleInputs(data, security) ==
    LET keep(input) == input.balance > 0
    IN SelectSeq(transformAddressDataToInputs(data, security), keep)

\* prepareInputs without the branch for a selection larger than the limit
prepareInputsGreedyOnly(data, thresh, maxInputsArg) ==
    LET limit == DefaultTo(maxInputsArg, JsNumber(2 * DEFAULT_MAX_INPUTS))
        inputs == eligibleInputs(data, DEFAULT_SECURITY)
        greedy == greedyLoop(inputs, <<>>, 0, thresh)
    IN IF TotalBalance(data) < thresh THEN Thrown(INSUFFICIENT_BALANCE, 0)
       ELSE IF thresh = 0 THEN Thrown(INPUTS_THRESHOLD_CANNOT_BE_ZERO, 0)
       ELSE IF ~isNumber(limit) THEN Thrown(INVALID_MAX_INPUTS_PROVIDED, 0)
       ELSE Returned(greedy.selected, greedy.availableBalance, "greedy", 0)

\* prepareInputs without the check of a zero threshold
prepareInputsNoZeroCheck(data, thresh, maxInputsArg) ==
    LET limit == DefaultTo(maxInputsArg, JsNumber(2 * DEFAULT_MAX_INPUTS))
        inputs == eligibleInputs(data, DEFAULT_SECURITY)
        greedy == greedyLoop(inputs, <<>>, 0, thresh)
    IN IF TotalBalance(data) < thresh THEN Thrown(INSUFFICIENT_BALANCE, 0)
       ELSE IF ~isNumber(limit) THEN Thrown(INVALID_MAX_INPUTS_PROVIDED, 0)
       ELSE IF GreaterThanZero(limit) /\ IntGreaterThan(Len(greedy.selected), limit)
       THEN selectWithinLimit(inputs, thresh, limit)
       ELSE Returned(greedy.selected, greedy.availableBalance, "greedy", 0)

(***************************************************************************)
(* prepareInputs, revision 1 (maxInputs = 2 by default).                   *)
(***************************************************************************)
prepareInputs(data, thresh, maxInputsArg) ==
    LET limit == DefaultTo(maxInputsArg, JsNumber(2 * DEFAULT_MAX_INPUTS))
        inputs == eligibleInputs(data, DEFAULT_SECURITY)
        greedy == greedyLoop(inputs, <<>>, 0, thresh)
    IN IF TotalBalance(data) < thresh THEN Thrown(INSUFFICIENT_BALANCE, 0)
       ELSE IF thresh = 0 THEN Thrown(INPUTS_THRESHOLD_CANNOT_BE_ZERO, 0)
       ELSE IF ~isNumber(limit) THEN Thrown(INVALID_MAX_INPUTS_PROVIDED, 0)
       ELSE IF greedy.thrown THEN Thrown(TYPE_ERROR, 0)
       ELSE IF GreaterThanZero(limit) /\ IntGreaterThan(Len(greedy.selected), limit)
       THEN selectWithinLimit(inputs, thresh, limit)
       ELSE Returned(greedy.selected, greedy.availableBalance, "greedy", 0)

(***************************************************************************)
(* prepareInputs, revision 2 (limit = 2 by default; a limit of 0 throws).  *)
(***************************************************************************)
prepareInputs2(data, thresh, limitArg) ==
    LET limit == DefaultTo(limitArg, JsNumber(2 * DEFAULT_MAX_INPUTS))
        inputs == eligibleInputs(data, DEFAULT_SECURITY)
        greedy == greedyLoop(inputs, <<>>, 0, thresh)
    IN IF TotalBalance(data) < thresh THEN Thrown(INSUFFICIENT_BALANCE, 0)
       ELSE IF thresh = 0 THEN Thrown(INPUTS_THRESHOLD_CANNOT_BE_ZERO, 0)
       ELSE IF StrictlyEqualsZero(limit) THEN Thrown(INPUTS_LIMIT_CANNOT_BE_ZERO, 0)
       ELSE IF greedy.thrown THEN Thrown(TYPE_ERROR, 0)
       ELSE IF isNumber(limit) /\ IntGreaterThan(Len(greedy.selected), limit)
       THEN selectWithinLimit(inputs, thresh, limit)
       ELSE Returned(greedy.selected, greedy.availableBalance, "greedy", 0)

\* prepareInputs of the loaded revision
prepareInputsOf(r, data, thresh, limitArg) ==
    IF r = 1 THEN prepareInputs(data, thresh, limitArg)
    ELSE prepareInputs2(data, thresh, limitArg)

\* the variables of the closure made last, after a call of prepareInputs
\* that gave res: those of its solver when it ran one
closureAfter(res, data, thresh, limitArg) ==
    IF res.callTimes > 0
    THEN solveForSelection(eligibleInputs(data, DEFAULT_SECURITY), thresh,
                           DefaultTo(limitArg, JsNumber(2 * DEFAULT_MAX_INPUTS))).st
    ELSE closure

(***************************************************************************)
(* Address data and transactions.  An address entry is                     *)
(* {address, index, balance, spent: {local, remote}}; addresses are the    *)
(* primary key of AddressSchema, so the entries of a pool have distinct    *)
(* addresses: entry i holds address i.  A transaction is kept by the       *)
(* fields the filters read; the list is kept as a set (no filter depends   *)
(* on its order).                                                          *)
(***************************************************************************)
AddressEntry(i, balance, local, remote) ==
    [address |-> i, index |-> i, balance |-> balance,
     spent |-> [local |-> local, remote |-> remote]]

\* a pool of MaxPool + 1 addresses of balance 1 each
OnesPool == [i \in 1..(MaxPool + 1) |-> AddressEntry(i, 1, FALSE, FALSE)]

\* pools handed to the selection alone: up to MaxPool unspent addresses, and
\* the pool of ones
SelectPools ==
    UNION {{[i \in 1..n |-> AddressEntry(i, b[i], FALSE, FALSE)] :
                b \in [1..n -> 0..MaxBalance]} : n \in 0..MaxPool}
        \cup {OnesPool}

\* pools of a wallet: up to MaxWallet addresses of any spend status
WalletPools ==
    UNION {{[i \in 1..n |-> AddressEntry(i, b[i], l[i], r[i])] :
                b \in [1..n -> 0..MaxWalletBalance],
                l \in [1..n -> BOOLEAN], r \in [1..n -> BOOLEAN]} : n \in 0..MaxWallet}

Transaction == [address : 1..MaxWallet, transferValue : {-1, 0, 1}, persistence : BOOLEAN]

TransactionLists == {txs \in SUBSET Transaction : Cardinality(txs) <= MaxTxs}

Thresholds == 0..MaxThreshold

WalletThresholds == 0..MaxWalletThreshold

\* limit arguments: absent, null, a string, NaN, -1, and 0, 0.5, 1, ... MaxLimit
Limits ==
    {JsUndefined, JsNull, JsString, JsNaN}
        \cup {JsNumber(t) : t \in {-2} \cup 0..(2 * MaxLimit)}

(***************************************************************************)
(* The collaborators of getInputs (./addresses, ./transfers).              *)
(***************************************************************************)
\* filter(normalisedTransactionsList, (tx) => tx.transferValue !== 0)
valueTransactions(txs) == {tx \in txs : tx.transferValue # 0}

\* what filterNonFundedPendingTransactions / filterNonFundedBundles may
\* resolve with: the pending transactions the node finds funded
fundedCandidates(txs) == SUBSET {tx \in txs : ~tx.persistence}

\* omitAddressDataWithIncomingTransactions /
\* filterAddressDataWithPendingIncomingTransactions
filterAddressDataWithPendingIncomingTransactions(data, pendingTransactions) ==
    LET receiving == {tx.address : tx \in {t \in pendingTransactions :
                                              ~t.persistence /\ t.transferValue > 0}}
        keep(entry) == entry.address \notin receiving
    IN SelectSeq(data, keep)

filterAddressDataWithPendingOutgoingTransactions(data, txs) ==
    LET sending == {tx.address : tx \in {t \in txs :
                                            ~t.persistence /\ t.transferValue < 0}}
        keep(entry) == entry.address \notin sending
    IN SelectSeq(data, keep)

\* pickUnspentAddressData / filterSpentAddressData, for the addresses the
\* node reports as spent from
filterSpentAddressData(data, spentOnLedger) ==
    LET keep(entry) == /\ ~entry.spent.local
                       /\ ~entry.spent.remote
                       /\ entry.address \notin spentOnLedger
    IN SelectSeq(data, keep)

(***************************************************************************)
(* getInputs: the entry checks, and the two then-callbacks.                *)
(***************************************************************************)
\* getInputs with a default limit of 1
getInputsMaxInputsAsPrepare(r, arg) == DefaultTo(arg, JsNumber(2))

\* the maxInputs parameter with its default: 0 in revision 1, null in 2
getInputsMaxInputs(r, arg) ==
    DefaultTo(arg, IF r = 1 THEN JsNumber(0) ELSE JsNull)

\* the entry checks with the limit checked before the balance
getInputsEntryErrorLimitFirst(r, data, thresh, arg) ==
    LET limit == getInputsMaxInputs(r, arg)
    IN IF r = 1 /\ ~isNumber(limit) THEN INVALID_MAX_INPUTS_PROVIDED
       ELSE IF r = 2 /\ ~isNull(limit) /\ ~isNumber(limit) THEN INVALID_MAX_INPUTS_PROVIDED
       ELSE IF TotalBalance(data) < thresh THEN INSUFFICIENT_BALANCE
       ELSE ""

\* the entry checks with a limit check that takes non-negative integers only
getInputsEntryErrorIntegersOnly(r, data, thresh, arg) ==
    LET limit == getInputsMaxInputs(r, arg)
    IN IF TotalBalance(data) < thresh THEN INSUFFICIENT_BALANCE
       ELSE IF ~(limit.kind = "number" /\ limit.twice >= 0 /\ limit.twice % 2 = 0)
       THEN INVALID_MAX_INPUTS_PROVIDED
       ELSE ""

\* the error of the entry checks, "" when they pass
getInputsEntryError(r, data, thresh, arg) ==
    LET limit == getInputsMaxInputs(r, arg)
    IN IF TotalBalance(data) < thresh THEN INSUFFICIENT_BALANCE
       ELSE IF r = 1 /\ ~isNumber(limit) THEN INVALID_MAX_INPUTS_PROVIDED
       ELSE IF r = 2 /\ ~isNull(limit) /\ ~isNumber(limit) THEN INVALID_MAX_INPUTS_PROVIDED
       ELSE ""

\* the first then-callback with the errors of its two checks exchanged
getInputsFilterErrorExchanged(afterIncoming, afterOutgoing, thresh) ==
    IF TotalBalance(afterIncoming) < thresh THEN ADDRESS_HAS_PENDING_TRANSFERS
    ELSE IF TotalBalance(afterOutgoing) < thresh THEN INCOMING_TRANSFERS
    ELSE ""

\* the error of the first then-callback, "" when it goes on to the spent filter
getInputsFilterError(afterIncoming, afterOutgoing, thresh) ==
    IF TotalBalance(afterIncoming) < thresh THEN INCOMING_TRANSFERS
    ELSE IF TotalBalance(afterOutgoing) < thresh THEN ADDRESS_HAS_PENDING_TRANSFERS
    ELSE ""

\* the second then-callback
getInputsSelect(r, unspent, thresh, arg) ==
    IF TotalBalance(unspent) < thresh THEN Thrown(FUNDS_AT_SPENT_ADDRESSES, 0)
    ELSE prepareInputsOf(r, unspent, thresh, getInputsMaxInputs(r, arg))

nonFundedFilterName(r) ==
    IF r = 1 THEN "filterNonFundedPendingTransactions" ELSE "filterNonFundedBundles"

spentFilterName(r) ==
    IF r = 1 THEN "pickUnspentAddressData" ELSE "filterSpentAddressData"

incomingFilterName(r) ==
    IF r = 1 THEN "omitAddressDataWithIncomingTransactions"
    ELSE "filterAddressDataWithPendingIncomingTransactions"

outgoingFilterName == "filterAddressDataWithPendingOutgoingTransactions"

\* the first then-callback going through all its filters whatever its checks
\* found
fundedStageCallsKeepsGoing(r, error) ==
    <<incomingFilterName(r), outgoingFilterName, spentFilterName(r)>>

\* the functions the first then-callback runs: a throw leaves the callback
fundedStageCalls(r, error) ==
    <<incomingFilterName(r)>>
        \o (IF error = INCOMING_TRANSFERS THEN <<>> ELSE <<outgoingFilterName>>)
        \o (IF error = "" THEN <<spentFilterName(r)>> ELSE <<>>)

\* the functions a prepareInputs call runs
selectionCalls(res) ==
    IF res.callTimes > 0 THEN <<"prepareInputs", "subsetSumWithLimit">>
    ELSE <<"prepareInputs">>

\* no call of the function subsetSumWithLimit gives has been made
NoSolverCall ==
    [called |-> FALSE, limit |-> JsUndefined, balances |-> <<>>, threshold |-> 0,
     returned |-> FALSE]

(***************************************************************************)
(* isNodeSynced (libs/iota/extendedApi): getNodeInfo, then getTrytes of a  *)
(* sampled transaction, whose timestamp decides.  Its tests are at         *)
(* src/src/shared/__tests__/libs/iota/extendedApi.spec.js.                 *)
(***************************************************************************)
EMPTY_HASH_TRYTES == "999"

NODE_NOT_SYNCED == "Node not synced"

REQUEST_FAILED == "Request failed"

\* the sampled transaction counts as fresh when younger than this (minutes)
FRESH_MINUTES == 5

\* an index the node does not report (undefined), kept as a number below
\* every index
NoIndex == 0 - 1

\* what getNodeInfo resolves with
NodeInfos ==
    [latestMilestone : {EMPTY_HASH_TRYTES, "UUU", "AAA"},
     latestSolidSubtangleMilestone : {EMPTY_HASH_TRYTES, "UUU", "AAA"},
     latestMilestoneIndex : 0..MaxMilestoneIndex \cup {NoIndex},
     latestSolidSubtangleMilestoneIndex : 0..MaxMilestoneIndex \cup {NoIndex}]

\* now - timestamp of the sampled transaction, in minutes
Ages == 0..MaxAge

\* latestMilestoneIndex - latestSolidSubtangleMilestoneIndex is d (never so
\* when an index is not reported: the difference is NaN)
indexDiffIs(info, d) ==
    /\ info.latestMilestoneIndex # NoIndex
    /\ info.latestSolidSubtangleMilestoneIndex # NoIndex
    /\ info.latestMilestoneIndex - info.latestSolidSubtangleMilestoneIndex = d

\* latestMilestoneIndex - latestSolidSubtangleMilestoneIndex > 1
indexDiffAboveOne(info) ==
    /\ info.latestMilestoneIndex # NoIndex
    /\ info.latestSolidSubtangleMilestoneIndex # NoIndex
    /\ info.latestMilestoneIndex - info.latestSolidSubtangleMilestoneIndex > 1

\* the check of the node info without the sentinel
nodeInfoVerdictNoSentinel(info) ==
    IF info.latestMilestone # info.latestSolidSubtangleMilestone
    THEN IF indexDiffIs(info, 1) THEN "sample" ELSE "reject"
    ELSE IF indexDiffAboveOne(info) THEN "reject"
    ELSE "sample"

\* the check of the node info by the hashes alone
nodeInfoVerdictHashesOnly(info) ==
    IF info.latestMilestone = EMPTY_HASH_TRYTES THEN "reject"
    ELSE IF info.latestMilestone # info.latestSolidSubtangleMilestone THEN "reject"
    ELSE "sample"

\* the check of the node info without the comparison of the hashes
nodeInfoVerdictAnyHashes(info) ==
    IF info.latestMilestone = EMPTY_HASH_TRYTES THEN "reject"
    ELSE IF indexDiffAboveOne(info) THEN "reject"
    ELSE "sample"

\* the check of the node info: "reject" (Node not synced) or "sample" (go on
\* to the timestamp of a transaction).  Equal hashes that are the sentinel
\* reject; hashes that differ reject, unless the solid index is 1 less than
\* the latest and the latest milestone is not the sentinel; equal hashes
\* with an index difference above 1 reject.
nodeInfoVerdict(info) ==
    IF /\ info.latestMilestone = info.latestSolidSubtangleMilestone
       /\ info.latestMilestone = EMPTY_HASH_TRYTES
    THEN "reject"
    ELSE IF info.latestMilestone # info.latestSolidSubtangleMilestone
    THEN IF indexDiffIs(info, 1) /\ info.latestMilestone # EMPTY_HASH_TRYTES
         THEN "sample"
         ELSE "reject"
    ELSE IF indexDiffAboveOne(info) THEN "reject"
    ELSE "sample"

\* a timestamp counts as fresh up to the limit, the limit included
isWithinMinutesInclusive(age) == age <= FRESH_MINUTES

\* now - timestamp < 5 minutes
isWithinMinutes(age) == age < FRESH_MINUTES

\* no call of isNodeSynced is on its way
NoSyncCall ==
    [pc |-> "idle", nodeInfo |-> <<>>, sampled |-> FALSE, age |-> 0,
     outcome |-> "none"]

(***************************************************************************)
(* UserInactivity: the component, the clock of the system and the promises *)
(* of getSystemUptime that have not resolved yet.  Times are in            *)
(* milliseconds.                                                           *)
(***************************************************************************)
defaultProps == [timeForInactivity |-> 300000, timeForLogout |-> 1800000,
                 checkInterval |-> 2000]

\* the props a parent gives: the defaults, or a threshold of its own
PropsGiven == {defaultProps, [defaultProps EXCEPT !.timeForInactivity = UptimeStep]}

\* this.timeForInactivity: the class never assigns it
thisTimeForInactivity == JsUndefined

\* the states AppState reports
AppStates == {"active", "inactive", "background"}

\* no uptime (nothing delivered, or never in the background)
NoUptime == 0 - 1

\* a >= v for an integer a: a comparison with NaN (undefined) is false
IntAtLeast(a, v) ==
    CASE v.kind = "number" -> 2 * a >= v.twice
      [] v.kind = "null" -> a >= 0
      [] OTHER -> FALSE

\* handleAppStateChange has not run
NoChange ==
    [nextAppState |-> "none", from |-> "none", elapsed |-> 0, uptime |-> 0,
     systemUptime |-> NoUptime, delivered |-> NoUptime, logout |-> FALSE]

\* the component before it is mounted
NotMounted ==
    [mounted |-> FALSE, props |-> defaultProps, appState |-> "active",
     systemUptime |-> 0, leftForegroundAt |-> NoUptime,
     timeWentToBackground |-> 0, pending |-> <<>>, change |-> NoChange]

(***************************************************************************)
(* The state machine: a caller calls prepareInputs or getInputs, the       *)
(* promises of getInputs settle one after the other, the caller takes the  *)
(* result.                                                                 *)
(***************************************************************************)
Init ==
    /\ rev \in {1, 2}
    /\ fn = "none"
    /\ addressData = <<>>
    /\ transactions = {}
    /\ threshold = 0
    /\ maxInputs = JsUndefined
    /\ pc = "idle"
    /\ resolved = 0
    /\ addressDataAfterIncoming = <<>>
    /\ addressDataForInputs = <<>>
    /\ unspentAddressData = <<>>
    /\ calls = <<>>
    /\ result = NoResult
    /\ closure = SolverInit
    /\ solver = NoSolverCall
    /\ previous = NoResult
    /\ sync = NoSyncCall
    /\ inactivity = NotMounted

\* prepareInputs(data, thresh, limit), called directly
PrepareInputsWith(data, thresh, limit) ==
    /\ fn' = "prepareInputs"
    /\ addressData' = data
    /\ threshold' = thresh
    /\ maxInputs' = limit
    /\ result' = prepareInputsOf(rev, data, thresh, limit)
    /\ calls' = selectionCalls(result')
    /\ closure' = closureAfter(result', data, thresh, limit)
    /\ pc' = "done"
    /\ UNCHANGED <<rev, transactions, resolved, addressDataAfterIncoming,
                   addressDataForInputs, unspentAddressData>>
    /\ UNCHANGED <<solver, previous, sync, inactivity>>

CallPrepareInputs ==
    /\ pc = "idle"
    /\ \E data \in SelectPools, thresh \in Thresholds, limit \in Limits :
          PrepareInputsWith(data, thresh, limit)

CallPrepareInputsOfWallet ==
    /\ pc = "idle"
    /\ \E data \in WalletPools, thresh \in WalletThresholds, limit \in Limits :
          PrepareInputsWith(data, thresh, limit)

\* getInputs(provider)(data, txs, thresh, limit) up to its first promise
CallGetInputs ==
    /\ pc = "idle"
    /\ \E data \in WalletPools, txs \in TransactionLists,
          thresh \in WalletThresholds, limit \in Limits :
        LET error == getInputsEntryError(rev, data, thresh, limit)
        IN /\ fn' = "getInputs"
           /\ addressData' = data
           /\ transactions' = txs
           /\ threshold' = thresh
           /\ maxInputs' = limit
           /\ IF error # ""
              THEN /\ result' = Thrown(error, 0)
                   /\ calls' = <<>>
                   /\ pc' = "done"
              ELSE /\ result' = NoResult
                   /\ calls' = <<nonFundedFilterName(rev)>>
                   /\ pc' = "awaitFunded"
           /\ UNCHANGED <<rev, resolved, addressDataAfterIncoming,
                          addressDataForInputs, unspentAddressData>>
           /\ UNCHANGED <<closure, solver, previous, sync, inactivity>>

\* the first then-callback taking the filtered addresses out of the array it
\* was given (remove in place of filter)
ResolveFundedInPlace ==
    /\ pc = "awaitFunded"
    /\ \E funded \in fundedCandidates(IF rev = 1 THEN valueTransactions(transactions)
                                   ELSE transactions) :
        LET afterIncoming ==
                filterAddressDataWithPendingIncomingTransactions(addressData, funded)
            afterOutgoing ==
                filterAddressDataWithPendingOutgoingTransactions(afterIncoming, transactions)
            error == getInputsFilterError(afterIncoming, afterOutgoing, threshold)
        IN /\ resolved' = 1
           /\ addressDataAfterIncoming' = afterIncoming
           /\ addressDataForInputs' = IF error = INCOMING_TRANSFERS
                                      THEN afterIncoming
                                      ELSE afterOutgoing
           /\ calls' = calls \o fundedStageCalls(rev, error)
           /\ IF error # ""
              THEN /\ result' = Thrown(error, 0)
                   /\ pc' = "done"
              ELSE /\ result' = result
                   /\ pc' = "awaitSpent"
           /\ addressData' = afterOutgoing
           /\ UNCHANGED <<rev, fn, transactions, threshold, maxInputs,
                          unspentAddressData>>
           /\ UNCHANGED <<closure, solver, previous, sync, inactivity>>

\* the first promise resolves: the pending-incoming and pending-outgoing stages
ResolveFunded ==
    /\ pc = "awaitFunded"
    /\ \E funded \in fundedCandidates(IF rev = 1 THEN valueTransactions(transactions)
                                   ELSE transactions) :
        LET afterIncoming ==
                filterAddressDataWithPendingIncomingTransactions(addressData, funded)
            afterOutgoing ==
                filterAddressDataWithPendingOutgoingTransactions(afterIncoming, transactions)
            error == getInputsFilterError(afterIncoming, afterOutgoing, threshold)
        IN /\ resolved' = 1
           /\ addressDataAfterIncoming' = afterIncoming
           /\ addressDataForInputs' = IF error = INCOMING_TRANSFERS
                                      THEN afterIncoming
                                      ELSE afterOutgoing
           /\ calls' = calls \o fundedStageCalls(rev, error)
           /\ IF error # ""
              THEN /\ result' = Thrown(error, 0)
                   /\ pc' = "done"
              ELSE /\ result' = result
                   /\ pc' = "awaitSpent"
           /\ UNCHANGED <<rev, fn, addressData, transactions, threshold, maxInputs,
                          unspentAddressData>>
           /\ UNCHANGED <<closure, solver, previous, sync, inactivity>>

\* the second then-callback selecting from the address data it gave to the
\* spent filter, not from what the filter resolved with
ResolveSpentUnfiltered ==
    /\ pc = "awaitSpent"
    /\ resolved' = 2
    /\ unspentAddressData' = addressDataForInputs
    /\ result' = getInputsSelect(rev, addressDataForInputs, threshold, maxInputs)
    /\ calls' = IF result'.error = FUNDS_AT_SPENT_ADDRESSES
                THEN calls
                ELSE calls \o selectionCalls(result')
    /\ closure' = closureAfter(result', addressDataForInputs, threshold,
                                getInputsMaxInputs(rev, maxInputs))
    /\ pc' = "done"
    /\ UNCHANGED <<rev, fn, addressData, transactions, threshold, maxInputs,
                   addressDataAfterIncoming, addressDataForInputs>>
    /\ UNCHANGED <<solver, previous, sync, inactivity>>

\* the second promise resolves: the spent stage and the selection
ResolveSpent ==
    /\ pc = "awaitSpent"
    /\ \E spentOnLedger \in SUBSET {addressDataForInputs[i].address :
                                    i \in DOMAIN addressDataForInputs} :
        LET unspent == filterSpentAddressData(addressDataForInputs, spentOnLedger)
        IN /\ resolved' = 2
           /\ unspentAddressData' = unspent
           /\ result' = getInputsSelect(rev, unspent, threshold, maxInputs)
           /\ calls' = IF result'.error = FUNDS_AT_SPENT_ADDRESSES
                       THEN calls
                       ELSE calls \o selectionCalls(result')
           /\ closure' = closureAfter(result', unspent, threshold,
                                       getInputsMaxInputs(rev, maxInputs))
           /\ pc' = "done"
           /\ UNCHANGED <<rev, fn, addressData, transactions, threshold, maxInputs,
                          addressDataAfterIncoming, addressDataForInputs>>
           /\ UNCHANGED <<solver, previous, sync, inactivity>>

\* a collaborator's promise rejects: the rejection is what getInputs gives
RejectCollaborator ==
    /\ pc \in {"awaitFunded", "awaitSpent"}
    /\ result' = Thrown(COLLABORATOR_REJECTED, 0)
    /\ pc' = "done"
    /\ UNCHANGED <<rev, fn, addressData, transactions, threshold, maxInputs,
                   resolved, addressDataAfterIncoming, addressDataForInputs,
                   unspentAddressData, calls>>
    /\ UNCHANGED <<closure, solver, previous, sync, inactivity>>

\* the caller has the result; the next call starts from scratch
Return ==
    /\ pc = "done"
    /\ fn' = "none"
    /\ addressData' = <<>>
    /\ transactions' = {}
    /\ threshold' = 0
    /\ maxInputs' = JsUndefined
    /\ pc' = "idle"
    /\ resolved' = 0
    /\ addressDataAfterIncoming' = <<>>
    /\ addressDataForInputs' = <<>>
    /\ unspentAddressData' = <<>>
    /\ calls' = <<>>
    /\ result' = NoResult
    /\ closure' = SolverInit
    /\ previous' = NoResult
    /\ UNCHANGED <<rev, solver, sync, inactivity>>

(***************************************************************************)
(* The solver called on its own: subsetSumWithLimit(limit, maxCallTimes)   *)
(* makes a closure and the function it gives is called once.               *)
(***************************************************************************)
\* lists of up to MaxSolverList balances, and the list 10, 20, 30
SolverLists ==
    UNION {[1..n -> 0..MaxSolverBalance] : n \in 0..MaxSolverList} \cup {<<10, 20, 30>>}

SolverThresholds == 0..MaxSolverThreshold \cup {30}

\* the second argument of subsetSumWithLimit: left out, or a number
SolverMaxCalls == {MAX_CALL_TIMES} \cup 1..MaxSolverCalls

CallSolver ==
    /\ pc = "idle"
    /\ ~solver.called
    /\ \E limitArg \in Limits, maxCallTimes \in SolverMaxCalls,
          balances \in SolverLists, thresh \in SolverThresholds :
        LET limit == DefaultTo(limitArg, JsNumber(2 * DEFAULT_LIMIT))
            solved == subsetSumWithLimitAndCalls(limit, maxCallTimes, balances, thresh)
        IN /\ solver' = [called |-> TRUE, limit |-> limit, balances |-> balances,
                         threshold |-> thresh, returned |-> solved.returned]
           /\ closure' = solved.st
    /\ UNCHANGED <<rev, fn, addressData, transactions, threshold, maxInputs, pc,
                   resolved, addressDataAfterIncoming, addressDataForInputs,
                   unspentAddressData, calls, result, previous, sync, inactivity>>

\* the caller has what the solver gave; the closure is dropped
ReturnSolver ==
    /\ solver.called
    /\ solver' = NoSolverCall
    /\ closure' = SolverInit
    /\ UNCHANGED <<rev, fn, addressData, transactions, threshold, maxInputs, pc,
                   resolved, addressDataAfterIncoming, addressDataForInputs,
                   unspentAddressData, calls, result, previous, sync, inactivity>>

NextSolver ==
    \/ CallSolver
    \/ ReturnSolver

SpecSolver == Init /\ [][NextSolver]_vars

(***************************************************************************)
(* A caller that calls prepareInputs, then once more with other arguments, *)
(* then again with the arguments of its first call, keeping the result of  *)
(* the first call (previous).  No closure is collected in between.         *)
(***************************************************************************)
\* pools of up to n unspent addresses with funds
FundedPools(n) ==
    UNION {{[i \in 1..k |-> AddressEntry(i, b[i], FALSE, FALSE)] :
                b \in [1..k -> 1..MaxRepeatBalance]} : k \in 0..n}

RepeatThresholds == 1..MaxRepeatThreshold

RepeatLimits == {JsNumber(2 * n) : n \in 1..MaxLimit}

CallPrepareInputsFirst ==
    /\ pc = "idle"
    /\ \E data \in FundedPools(MaxRepeatPool), thresh \in RepeatThresholds,
          limit \in RepeatLimits :
          PrepareInputsWith(data, thresh, limit)

\* a call with other arguments, its result dropped
CallOther ==
    /\ pc = "done"
    /\ fn = "prepareInputs"
    /\ previous = NoResult
    /\ calls = selectionCalls(result)
    /\ \E data \in FundedPools(MaxOtherPool), thresh \in RepeatThresholds,
          limit \in RepeatLimits :
        LET other == prepareInputsOf(rev, data, thresh, limit)
        IN /\ calls' = calls \o selectionCalls(other)
           /\ closure' = closureAfter(other, data, thresh, limit)
    /\ UNCHANGED <<rev, fn, addressData, transactions, threshold, maxInputs, pc,
                   resolved, addressDataAfterIncoming, addressDataForInputs,
                   unspentAddressData, result, solver, previous, sync, inactivity>>

\* the first call once more
CallAgain ==
    /\ pc = "done"
    /\ fn = "prepareInputs"
    /\ previous = NoResult
    /\ previous' = result
    /\ result' = prepareInputsOf(rev, addressData, threshold, maxInputs)
    /\ calls' = calls \o selectionCalls(result')
    /\ closure' = closureAfter(result', addressData, threshold, maxInputs)
    /\ UNCHANGED <<rev, fn, addressData, transactions, threshold, maxInputs, pc,
                   resolved, addressDataAfterIncoming, addressDataForInputs,
                   unspentAddressData, solver, sync, inactivity>>

NextRepeat ==
    \/ CallPrepareInputsFirst
    \/ CallOther
    \/ CallAgain
    \/ Return

SpecRepeat == Init /\ [][NextRepeat]_vars

(***************************************************************************)
(* isNodeSynced: the call, the two answers of the node, the return.        *)
(***************************************************************************)
CallIsNodeSynced ==
    /\ pc = "idle"
    /\ sync.pc = "idle"
    /\ sync' = [sync EXCEPT !.pc = "awaitNodeInfo"]
    /\ UNCHANGED <<rev, fn, addressData, transactions, threshold, maxInputs, pc,
                   resolved, addressDataAfterIncoming, addressDataForInputs,
                   unspentAddressData, calls, result, closure, solver, previous, inactivity>>

\* getNodeInfo resolves
ResolveNodeInfo ==
    /\ sync.pc = "awaitNodeInfo"
    /\ \E info \in NodeInfos :
          sync' = IF nodeInfoVerdict(info) = "reject"
                  THEN [sync EXCEPT !.pc = "done", !.nodeInfo = <<info>>,
                                    !.outcome = NODE_NOT_SYNCED]
                  ELSE [sync EXCEPT !.pc = "awaitTrytes", !.nodeInfo = <<info>>]
    /\ UNCHANGED <<rev, fn, addressData, transactions, threshold, maxInputs, pc,
                   resolved, addressDataAfterIncoming, addressDataForInputs,
                   unspentAddressData, calls, result, closure, solver, previous, inactivity>>

\* getTrytes resolves with the sampled transaction
ResolveTrytes ==
    /\ sync.pc = "awaitTrytes"
    /\ \E age \in Ages :
          sync' = [sync EXCEPT !.pc = "done", !.sampled = TRUE, !.age = age,
                               !.outcome = IF isWithinMinutes(age) THEN "true"
                                           ELSE "false"]
    /\ UNCHANGED <<rev, fn, addressData, transactions, threshold, maxInputs, pc,
                   resolved, addressDataAfterIncoming, addressDataForInputs,
                   unspentAddressData, calls, result, closure, solver, previous, inactivity>>

\* a request to the node fails: isNodeSynced rejects with that failure
RejectRequest ==
    /\ sync.pc \in {"awaitNodeInfo", "awaitTrytes"}
    /\ sync' = [sync EXCEPT !.pc = "done", !.outcome = REQUEST_FAILED]
    /\ UNCHANGED <<rev, fn, addressData, transactions, threshold, maxInputs, pc,
                   resolved, addressDataAfterIncoming, addressDataForInputs,
                   unspentAddressData, calls, result, closure, solver, previous, inactivity>>

\* the caller has the verdict; nothing of it is kept
ReturnSync ==
    /\ sync.pc = "done"
    /\ sync' = NoSyncCall
    /\ UNCHANGED <<rev, fn, addressData, transactions, threshold, maxInputs, pc,
                   resolved, addressDataAfterIncoming, addressDataForInputs,
                   unspentAddressData, calls, result, closure, solver, previous, inactivity>>

NextSync ==
    \/ CallIsNodeSynced
    \/ ResolveNodeInfo
    \/ ResolveTrytes
    \/ RejectRequest
    \/ ReturnSync

SpecSync == Init /\ [][NextSync]_vars

(***************************************************************************)
(* UserInactivity: the component is mounted, the system's clock goes on,   *)
(* AppState reports a change, a promise of getSystemUptime resolves.       *)
(***************************************************************************)
\* componentDidMount: handleAppStateChange listens to AppState
MountUserInactivity ==
    /\ pc = "idle"
    /\ ~inactivity.mounted
    /\ \E props \in PropsGiven :
          inactivity' = [inactivity EXCEPT !.mounted = TRUE, !.props = props]
    /\ UNCHANGED <<rev, fn, addressData, transactions, threshold, maxInputs, pc,
                   resolved, addressDataAfterIncoming, addressDataForInputs,
                   unspentAddressData, calls, result, closure, solver, previous, sync>>

\* the uptime of the system goes on, in the foreground or not
UptimePasses ==
    /\ pc = "idle"
    /\ inactivity.systemUptime < MaxUptimeSteps * UptimeStep
    /\ inactivity' = [inactivity EXCEPT !.systemUptime = @ + UptimeStep]
    /\ UNCHANGED <<rev, fn, addressData, transactions, threshold, maxInputs, pc,
                   resolved, addressDataAfterIncoming, addressDataForInputs,
                   unspentAddressData, calls, result, closure, solver, previous, sync>>

\* handleAppStateChange(nextAppState) from its first line to its last: the
\* callback given to then runs after the handler has returned, so the local
\* uptime is still 0 where the handler reads it
handleAppStateChange(c, nextAppState) ==
    LET uptime == 0
        toBackground == nextAppState \in {"inactive", "background"}
        logout == /\ ~toBackground
                  /\ IntAtLeast(uptime - c.timeWentToBackground, thisTimeForInactivity)
    IN [c EXCEPT
          !.appState = nextAppState,
          !.pending = Append(c.pending, c.systemUptime),
          !.timeWentToBackground = IF toBackground THEN uptime ELSE @,
          !.leftForegroundAt = IF toBackground THEN c.systemUptime ELSE @,
          !.change = [nextAppState |-> nextAppState,
                      from |-> c.appState,
                      elapsed |-> IF c.leftForegroundAt = NoUptime THEN 0
                                  ELSE c.systemUptime - c.leftForegroundAt,
                      uptime |-> uptime,
                      systemUptime |-> c.systemUptime,
                      delivered |-> NoUptime,
                      logout |-> logout]]

\* AppState reports a change to the listener
AppStateChanges ==
    /\ pc = "idle"
    /\ inactivity.mounted
    /\ Len(inactivity.pending) < MaxPendingUptime
    /\ \E nextAppState \in AppStates \ {inactivity.appState} :
          inactivity' = handleAppStateChange(inactivity, nextAppState)
    /\ UNCHANGED <<rev, fn, addressData, transactions, threshold, maxInputs, pc,
                   resolved, addressDataAfterIncoming, addressDataForInputs,
                   unspentAddressData, calls, result, closure, solver, previous, sync>>

\* a promise of getSystemUptime resolves: its callback assigns the local
\* uptime of a call of the handler that has returned
ResolveUptime ==
    /\ pc = "idle"
    /\ \E i \in DOMAIN inactivity.pending :
          inactivity' =
              [inactivity EXCEPT
                 !.pending = SubSeq(@, 1, i - 1) \o SubSeq(@, i + 1, Len(@)),
                 !.change.delivered = IF i = Len(inactivity.pending)
                                      THEN inactivity.pending[i]
                                      ELSE @]
    /\ UNCHANGED <<rev, fn, addressData, transactions, threshold, maxInputs, pc,
                   resolved, addressDataAfterIncoming, addressDataForInputs,
                   unspentAddressData, calls, result, closure, solver, previous, sync>>

NextInactivity ==
    \/ MountUserInactivity
    \/ UptimePasses
    \/ AppStateChanges
    \/ ResolveUptime

SpecInactivity == Init /\ [][NextInactivity]_vars

Next ==
    \/ CallPrepareInputs
    \/ CallPrepareInputsOfWallet
    \/ CallGetInputs
    \/ ResolveFunded
    \/ ResolveSpent
    \/ RejectCollaborator
    \/ Return

Spec == Init /\ [][Next]_vars

NextSelect ==
    \/ CallPrepareInputs
    \/ Return

SpecSelect == Init /\ [][NextSelect]_vars

(***************************************************************************)
(* Properties.                                                             *)
(***************************************************************************)
DonePrepareInputs == pc = "done" /\ fn = "prepareInputs"

DoneGetInputs == pc = "done" /\ fn = "getInputs"

ReturnedOk == pc = "done" /\ result.status = "ok"

ReturnedBalances == [i \in DOMAIN result.inputs |-> result.inputs[i].balance]

IsPositiveInteger(v) == v.kind = "number" /\ v.twice > 0 /\ v.twice % 2 = 0

IsNonNegativeInteger(v) == v.kind = "number" /\ v.twice >= 0 /\ v.twice % 2 = 0

\* the limit prepareInputs works with when called with maxInputs
EffectiveLimit == DefaultTo(maxInputs, JsNumber(2 * DEFAULT_MAX_INPUTS))

RECURSIVE SetSum(_)
SetSum(S) == IF S = {} THEN 0
             ELSE LET x == CHOOSE y \in S : TRUE IN x + SetSum(S \ {x})

\* the entry of addressData that holds an address
EntryOf(address) ==
    addressData[CHOOSE i \in DOMAIN addressData : addressData[i].address = address]

IsSpent(entry) == entry.spent.local \/ entry.spent.remote

\* C1: whenever prepareInputs returns a result for a threshold >= 1 that the
\* total balance covers, the balances of the returned inputs sum to at least
\* the threshold (greedy path and both fallback paths).
C1_SumMeetsThreshold ==
    (DonePrepareInputs /\ ReturnedOk /\ threshold >= 1
        /\ TotalBalance(addressData) >= threshold)
    => SumOf(ReturnedBalances) >= threshold

\* a result of the over-threshold fallback
C1_Witness ==
    /\ DonePrepareInputs /\ ReturnedOk
    /\ result.path = "exceeded"
    /\ SumOf(ReturnedBalances) > threshold

\* C2: called with a positive integer limit, prepareInputs returns at most
\* limit inputs, on the greedy path and on both fallback paths.
C2_CountWithinLimit ==
    (DonePrepareInputs /\ ReturnedOk /\ IsPositiveInteger(maxInputs))
    => 2 * Len(result.inputs) <= maxInputs.twice

\* an exact match of the fallback that uses the whole limit of 2
C2_Witness ==
    /\ DonePrepareInputs /\ ReturnedOk
    /\ maxInputs = JsNumber(4)
    /\ result.path = "exact"
    /\ Len(result.inputs) = 2

\* C3 as stated: no spent address is in a selection of getInputs or of
\* prepareInputs.
C3_NoSpentAddressSelected ==
    ReturnedOk =>
        \A i \in DOMAIN result.inputs : ~IsSpent(EntryOf(result.inputs[i].address))

\* C3 as amended: no spent address is in a selection of getInputs;
\* prepareInputs selects among the addresses it is given, whatever their
\* spend status, so its selection is free of spent addresses when its
\* address data is.
C3_GetInputsSelectsUnspent ==
    /\ (DoneGetInputs /\ ReturnedOk) =>
          \A i \in DOMAIN result.inputs :
              /\ ~IsSpent(EntryOf(result.inputs[i].address))
              /\ \E j \in DOMAIN unspentAddressData :
                    unspentAddressData[j].address = result.inputs[i].address
    /\ (DonePrepareInputs /\ ReturnedOk) =>
          \A i \in DOMAIN result.inputs :
              \E j \in DOMAIN addressData :
                  /\ addressData[j].address = result.inputs[i].address
                  /\ addressData[j].balance = result.inputs[i].balance

\* getInputs selected while the pool held a spent address with funds
C3_Witness ==
    /\ DoneGetInputs /\ ReturnedOk
    /\ \E j \in DOMAIN addressData :
          IsSpent(addressData[j]) /\ addressData[j].balance > 0

\* C4: no address appears twice in the inputs prepareInputs returns (the
\* addresses of the pool being pairwise distinct).
C4_NoAddressTwice ==
    (DonePrepareInputs /\ ReturnedOk) =>
        \A i, j \in DOMAIN result.inputs :
            result.inputs[i].address = result.inputs[j].address => i = j

\* a greedy selection of three inputs
C4_Witness ==
    /\ DonePrepareInputs /\ ReturnedOk
    /\ result.path = "greedy"
    /\ Len(result.inputs) = 3

\* the sums of the sets of eligible inputs (by position) within the limit
SumsWithinLimit ==
    LET eligible == {i \in DOMAIN addressData : addressData[i].balance > 0}
    IN {SumOf([i \in DOMAIN addressData |->
                  IF i \in S THEN addressData[i].balance ELSE 0]) :
           S \in {T \in SUBSET eligible : IntAtMost(Cardinality(T), maxInputs)}}

\* C5 as stated (for a positive integer limit): the sum returned is the
\* threshold whenever some eligible inputs within the limit sum to it, and
\* otherwise the smallest sum >= threshold of eligible inputs within the limit.
C5_ExactOrSmallestOvershoot ==
    (DonePrepareInputs /\ ReturnedOk /\ IsPositiveInteger(maxInputs)) =>
        IF threshold \in SumsWithinLimit
        THEN result.balance = threshold
        ELSE /\ result.balance \in SumsWithinLimit
             /\ \A x \in SumsWithinLimit : x >= threshold => result.balance <= x

\* the sets of pairwise different balances of eligible inputs within the limit
ValueCombinations ==
    LET values == {addressData[i].balance : i \in DOMAIN addressData} \ {0}
    IN {S \in SUBSET values : IntAtMost(Cardinality(S), EffectiveLimit)}

\* C5 as amended: the sum returned is that of the returned inputs and is >=
\* threshold; a greedy selection that fits the limit is returned as it is;
\* when it does not fit, the sum is the threshold whenever pairwise
\* different balances of eligible inputs, within the limit, sum to it, and
\* otherwise the result is an over-threshold combination of pairwise different
\* balances with the fewest inputs (not the smallest overshoot), or
\* CANNOT_FIND_INPUTS_WITH_PROVIDED_LIMIT when there is none.
C5_ExactElseFewestInputs ==
    LET exact == {S \in ValueCombinations : SetSum(S) = threshold}
        over == {S \in ValueCombinations : SetSum(S) > threshold}
    IN /\ (DonePrepareInputs /\ ReturnedOk) =>
            /\ result.balance = SumOf(ReturnedBalances)
            /\ result.balance >= threshold
            /\ result.callTimes = 0 <=> result.path = "greedy"
       /\ (DonePrepareInputs /\ result.callTimes > 0) =>
            IF exact # {}
            THEN /\ result.status = "ok"
                 /\ result.path = "exact"
                 /\ result.balance = threshold
            ELSE IF over # {}
            THEN /\ result.status = "ok"
                 /\ result.path = "exceeded"
                 /\ result.balance > threshold
                 /\ Range(ReturnedBalances) \in over
                 /\ \A S \in over : Len(result.inputs) <= Cardinality(S)
            ELSE /\ result.status = "error"
                 /\ result.error = CANNOT_FIND_INPUTS_WITH_PROVIDED_LIMIT

\* a fallback that passes over a combination of a smaller overshoot
C5_Witness ==
    /\ DonePrepareInputs /\ ReturnedOk
    /\ result.path = "exceeded"
    /\ \E S \in ValueCombinations :
          /\ SetSum(S) > threshold
          /\ SetSum(S) < result.balance

\* the selection stage of getInputs was reached with enough unspent balance
GetInputsSelected ==
    /\ DoneGetInputs
    /\ resolved = 2
    /\ TotalBalance(unspentAddressData) >= threshold

\* prepareInputs was called with enough balance
PrepareInputsFunded ==
    /\ DonePrepareInputs
    /\ TotalBalance(addressData) >= threshold

GreedyResult ==
    /\ result.status = "ok"
    /\ result.path = "greedy"
    /\ result.callTimes = 0
    /\ "subsetSumWithLimit" \notin Range(calls)

C7_InsufficientBalanceFirst ==
    (pc = "done" /\ TotalBalance(addressData) < threshold) =>
        /\ result.status = "error"
        /\ result.error = INSUFFICIENT_BALANCE
        /\ fn = "getInputs" => calls = <<>>

\* getInputs rejected for the balance although the limit is not a number
C7_Witness ==
    /\ DoneGetInputs
    /\ TotalBalance(addressData) < threshold
    /\ maxInputs = JsString
    /\ transactions # {}
    /\ result.error = INSUFFICIENT_BALANCE

\* C8: with threshold = 0 prepareInputs fails with
\* INPUTS_THRESHOLD_CANNOT_BE_ZERO for every pool and limit and never returns
\* an empty set of inputs; getInputs with threshold = 0 is rejected with the
\* same error once both its promises have resolved.
C8_ZeroThresholdFails ==
    /\ (DonePrepareInputs /\ threshold = 0) =>
          /\ result.status = "error"
          /\ result.error = INPUTS_THRESHOLD_CANNOT_BE_ZERO
    /\ (DonePrepareInputs /\ ReturnedOk) => result.inputs # <<>>
    /\ (DoneGetInputs /\ threshold = 0 /\ resolved = 2) =>
          /\ result.status = "error"
          /\ result.error = INPUTS_THRESHOLD_CANNOT_BE_ZERO

\* getInputs with threshold 0 on a funded wallet, after both promises resolved
C8_Witness ==
    /\ DoneGetInputs
    /\ threshold = 0
    /\ resolved = 2
    /\ TotalBalance(unspentAddressData) > 0
    /\ result.error = INPUTS_THRESHOLD_CANNOT_BE_ZERO

\* C9 as stated: with enough balance and threshold >= 1, a limit argument
\* that is not a non-negative integer fails with INVALID_MAX_INPUTS_PROVIDED
\* and a non-negative integer never does.
C9_InvalidLimitIffNotNaturalNumber ==
    (/\ pc = "done"
     /\ threshold >= 1
     /\ TotalBalance(addressData) >= threshold
     /\ maxInputs # JsUndefined)
    => (result.error = INVALID_MAX_INPUTS_PROVIDED <=> ~IsNonNegativeInteger(maxInputs))

\* C9 as amended: with enough balance and threshold >= 1, prepareInputs and
\* getInputs of revision 1 fail with INVALID_MAX_INPUTS_PROVIDED exactly when
\* the limit is given and is not of type number (negative numbers,
\* non-integer numbers and NaN pass); getInputs of revision 2 exactly when
\* the limit is given, is not null and is not of type number; prepareInputs
\* of revision 2 never.
C9_InvalidLimitIffNotANumber ==
    (/\ pc = "done"
     /\ threshold >= 1
     /\ TotalBalance(addressData) >= threshold)
    => /\ rev = 1 =>
            (result.error = INVALID_MAX_INPUTS_PROVIDED
                <=> maxInputs.kind \in {"null", "string"})
       /\ (rev = 2 /\ fn = "getInputs") =>
            (result.error = INVALID_MAX_INPUTS_PROVIDED <=> maxInputs.kind = "string")
       /\ (rev = 2 /\ fn = "prepareInputs") =>
            result.error # INVALID_MAX_INPUTS_PROVIDED

\* getInputs of revision 1 rejecting null
C9_Witness ==
    /\ DoneGetInputs
    /\ rev = 1
    /\ threshold >= 1
    /\ TotalBalance(addressData) >= threshold
    /\ maxInputs = JsNull
    /\ result.error = INVALID_MAX_INPUTS_PROVIDED

\* C10: in getInputs the error is INCOMING_TRANSFERS when the balance left by
\* the pending-incoming filter is below the threshold, otherwise
\* ADDRESS_HAS_PENDING_TRANSFERS when the balance left by the
\* pending-outgoing filter is, otherwise FUNDS_AT_SPENT_ADDRESSES when the
\* balance left by the spent filter is; each error is raised in that case
\* only.
C10_FirstShortStageNamesTheError ==
    DoneGetInputs =>
        /\ result.error = INCOMING_TRANSFERS
              <=> /\ resolved = 1
                  /\ TotalBalance(addressData) >= threshold
                  /\ TotalBalance(addressDataAfterIncoming) < threshold
        /\ result.error = ADDRESS_HAS_PENDING_TRANSFERS
              <=> /\ resolved = 1
                  /\ TotalBalance(addressDataAfterIncoming) >= threshold
                  /\ TotalBalance(addressDataForInputs) < threshold
        /\ result.error = FUNDS_AT_SPENT_ADDRESSES
              <=> /\ resolved = 2
                  /\ TotalBalance(addressDataForInputs) >= threshold
                  /\ TotalBalance(unspentAddressData) < threshold
        /\ result.error = INCOMING_TRANSFERS =>
              \E tx \in transactions :
                  /\ ~tx.persistence /\ tx.transferValue > 0
                  /\ \E i \in DOMAIN addressData : addressData[i].address = tx.address
        /\ result.error = ADDRESS_HAS_PENDING_TRANSFERS =>
              \E tx \in transactions :
                  /\ ~tx.persistence /\ tx.transferValue < 0
                  /\ \E i \in DOMAIN addressData : addressData[i].address = tx.address

\* the pending-outgoing stage left too little
C10_Witness ==
    /\ DoneGetInputs
    /\ result.error = ADDRESS_HAS_PENDING_TRANSFERS
    /\ TotalBalance(addressDataAfterIncoming) >= threshold

\* the greedy selection for the call that was made
GreedySelection ==
    greedyLoop(eligibleInputs(addressData, DEFAULT_SECURITY), <<>>, 0, threshold).selected

\* C11: when the greedy selection is larger than a positive limit and the
\* solver's run over the distinct balances recorded neither an exact nor an
\* over-threshold combination, prepareInputs fails with
\* CANNOT_FIND_INPUTS_WITH_PROVIDED_LIMIT; so it does for a pool of ones,
\* threshold 3 and limit 2, where the solver is given the one balance 1.
C11_CannotMeetLimit ==
    /\ (/\ DonePrepareInputs
        /\ threshold >= 1
        /\ TotalBalance(addressData) >= threshold
        /\ GreaterThanZero(EffectiveLimit)
        /\ IntGreaterThan(Len(GreedySelection), EffectiveLimit)
        /\ closure.exactMatches = <<>>
        /\ closure.exceeded = <<>>)
       => /\ result.status = "error"
          /\ result.error = CANNOT_FIND_INPUTS_WITH_PROVIDED_LIMIT
          /\ result.callTimes > 0
    /\ (/\ DonePrepareInputs
        /\ addressData = OnesPool
        /\ threshold = 3
        /\ maxInputs = JsNumber(4))
       => /\ Len(GreedySelection) = 3
          /\ closure.sizeOfBalances = 1
          /\ result.error = CANNOT_FIND_INPUTS_WITH_PROVIDED_LIMIT

\* the pool of ones, threshold 3, limit 2
C11_Witness ==
    /\ DonePrepareInputs
    /\ addressData = OnesPool
    /\ threshold = 3
    /\ maxInputs = JsNumber(4)
    /\ closure.callTimes = 2
    /\ result.error = CANNOT_FIND_INPUTS_WITH_PROVIDED_LIMIT

\* the strictly increasing sequence of the positions in S
PositionsInOrder(S) ==
    CHOOSE q \in [1..Cardinality(S) -> S] :
        \A i, j \in 1..Cardinality(S) : i < j => q[i] < q[j]

\* the balances at the positions in S, in the order of the list
BalancesAt(S) ==
    LET q == PositionsInOrder(S)
    IN [k \in 1..Cardinality(S) |-> solver.balances[q[k]]]

\* a depth-first traversal from left to right meets the combination at the
\* positions A before the one at B: A is a proper prefix of B, or at the
\* first place where they differ A has the smaller position
MetBefore(A, B) ==
    LET a == PositionsInOrder(A)
        b == PositionsInOrder(B)
    IN /\ A # B
       /\ \E k \in 1..(Len(a) + 1) :
             /\ \A j \in 1..(k - 1) : j <= Len(b) /\ a[j] = b[j]
             /\ \/ k = Len(a) + 1
                \/ k <= Len(a) /\ k <= Len(b) /\ a[k] < b[k]

\* the positions of the combinations that sum to the threshold within the limit
ExactCombinations ==
    {S \in SUBSET (1..Len(solver.balances)) :
        /\ SumOf(BalancesAt(S)) = solver.threshold
        /\ IntAtMost(Cardinality(S), solver.limit)}

\* C12: the solver records one exact match at most, and it is the first
\* combination, in the order of a left-to-right depth-first traversal of
\* the list, that sums to the threshold with a size within the limit; for
\* the list 10, 20, 30, threshold 30 and limit 2 it is 10, 20.
C12_FirstExactMatchInTraversalOrder ==
    solver.called =>
        /\ IF ExactCombinations = {}
           THEN closure.exactMatches = <<>>
           ELSE LET first == CHOOSE S \in ExactCombinations :
                                 \A T \in ExactCombinations \ {S} : MetBefore(S, T)
                IN closure.exactMatches = <<BalancesAt(first)>>
        /\ (/\ solver.balances = <<10, 20, 30>>
            /\ solver.threshold = 30
            /\ solver.limit = JsNumber(4))
           => closure.exactMatches = <<(<<10, 20>>)>>

\* the list 10, 20, 30 with threshold 30 and limit 2
C12_Witness ==
    /\ solver.called
    /\ solver.balances = <<10, 20, 30>>
    /\ solver.threshold = 30
    /\ solver.limit = JsNumber(4)
    /\ closure.exactMatches = <<(<<10, 20>>)>>
    /\ {1, 2} \in ExactCombinations
    /\ {3} \in ExactCombinations

\* C13: in one solve calculate runs at most maxCallTimes times.
C13_CallCounterIsHardCap ==
    solver.called => closure.callTimes <= closure.maxCallTimes

\* C14: the top-level call of the solver returns the record of its matches
\* for every list, threshold and limit.
C14_SolverAlwaysReturnsRecord ==
    solver.called => solver.returned

\* how often prepareInputs was called
TimesCalled == Cardinality({i \in DOMAIN calls : calls[i] = "prepareInputs"})

\* C15: a call of prepareInputs made again with the same address data,
\* threshold and limit, with or without another call of prepareInputs in
\* between, gives what the first call gave: the same inputs in the same
\* order and the same balance, or the same error, after as many runs of
\* calculate; the closure of one call is not the closure of another.
C15_SameCallSameResult ==
    (pc = "done" /\ fn = "prepareInputs" /\ previous # NoResult) =>
        /\ result.status = previous.status
        /\ result.error = previous.error
        /\ result.inputs = previous.inputs
        /\ result.balance = previous.balance
        /\ result.callTimes = previous.callTimes
        /\ result.callTimes > 0 => closure.callTimes = result.callTimes

\* a call that ran the solver, made again after another call that ran it
C15_Witness ==
    /\ pc = "done"
    /\ previous # NoResult
    /\ TimesCalled = 3
    /\ Len(calls) = 6
    /\ result.status = "ok"
    /\ result.path = "exceeded"

\* the entry of the address data an input was made of
RepackagedFrom(input, entry) ==
    /\ entry.address = input.address
    /\ entry.balance = input.balance
    /\ entry.index = input.keyIndex

\* C16: from the call to the return of prepareInputs and of getInputs,
\* whether they succeed or fail, the address data (its entries, their order,
\* balances and spend status) and the transactions stay as they were
\* supplied; the inputs given back are new objects made of entries of the
\* address data, in the order of the selection.
C16_ArgumentsLeftAsSupplied ==
    /\ [][(pc # "idle" /\ pc' # "idle") =>
             (addressData' = addressData /\ transactions' = transactions)]_vars
    /\ [](ReturnedOk =>
             \A i \in DOMAIN result.inputs :
                 \E j \in DOMAIN addressData :
                     RepackagedFrom(result.inputs[i], addressData[j]))

\* getInputs selected the second address before the first, after a filter
\* read the transactions; the address data is in the order supplied
C16_Witness ==
    /\ DoneGetInputs /\ ReturnedOk
    /\ transactions # {}
    /\ Len(result.inputs) = 2
    /\ result.inputs[1].address = addressData[2].address
    /\ result.inputs[2].address = addressData[1].address
    /\ addressData[1].address < addressData[2].address

\* isNodeSynced is over and the node had answered getNodeInfo
SyncDone == sync.pc = "done" /\ sync.nodeInfo # <<>>

\* what getNodeInfo resolved with
NodeInfo == sync.nodeInfo[1]

HashesEqual == NodeInfo.latestMilestone = NodeInfo.latestSolidSubtangleMilestone

LatestIsSentinel == NodeInfo.latestMilestone = EMPTY_HASH_TRYTES

\* the verdict the timestamp alone gives
VerdictOfTimestamp == IF sync.age < FRESH_MINUTES THEN "true" ELSE "false"

\* isNodeSynced resolved, with the verdict of the timestamp
ResolvedByTimestamp ==
    /\ sync.sampled
    /\ sync.outcome = VerdictOfTimestamp

\* C17: when the node reports equal hashes that are the sentinel,
\* isNodeSynced rejects with "Node not synced", before any transaction is
\* sampled, and resolves to no boolean.
C17_SentinelRejects ==
    (SyncDone /\ HashesEqual /\ LatestIsSentinel) =>
        /\ sync.outcome = NODE_NOT_SYNCED
        /\ ~sync.sampled

\* the node reported the sentinel twice, with indices next to each other
C17_Witness ==
    /\ SyncDone /\ HashesEqual /\ LatestIsSentinel
    /\ indexDiffIs(NodeInfo, 1)
    /\ sync.outcome = NODE_NOT_SYNCED

\* C18 as stated: whenever the two hashes differ, isNodeSynced rejects with
\* "Node not synced", whatever the indices are.
C18_DifferentHashesReject ==
    (SyncDone /\ ~HashesEqual) => sync.outcome = NODE_NOT_SYNCED

\* C18 as amended: when the two hashes differ, isNodeSynced rejects with
\* "Node not synced" unless the solid index is exactly 1 less than the latest
\* index and the latest milestone is not the sentinel; in that case it goes
\* on to the timestamp and does not reject with "Node not synced".
C18_DifferentHashesRejectUnlessOneBehind ==
    (SyncDone /\ ~HashesEqual) =>
        (sync.outcome = NODE_NOT_SYNCED
            <=> ~(indexDiffIs(NodeInfo, 1) /\ ~LatestIsSentinel))

\* hashes that differ, indices two apart: rejected
C18_Witness ==
    /\ SyncDone /\ ~HashesEqual /\ ~LatestIsSentinel
    /\ indexDiffIs(NodeInfo, 2)
    /\ sync.outcome = NODE_NOT_SYNCED

\* C19: when the solid index is exactly 1 less than the latest index and the
\* latest milestone is not the sentinel, isNodeSynced does not reject with
\* "Node not synced" and, the transaction sampled, resolves true for a
\* timestamp within five minutes and false for an older one, whether the
\* two hashes are equal or differ.
C19_OneBehindDecidedByTimestamp ==
    (SyncDone /\ indexDiffIs(NodeInfo, 1) /\ ~LatestIsSentinel) =>
        /\ sync.outcome # NODE_NOT_SYNCED
        /\ sync.sampled =>
              /\ sync.outcome \in {"true", "false"}
              /\ sync.age < FRESH_MINUTES => sync.outcome = "true"
              /\ sync.age > FRESH_MINUTES => sync.outcome = "false"

\* hashes that differ, indices 1 apart, an old timestamp: resolved false
C19_Witness ==
    /\ SyncDone /\ ~HashesEqual /\ ~LatestIsSentinel
    /\ indexDiffIs(NodeInfo, 1)
    /\ sync.sampled
    /\ sync.age > FRESH_MINUTES
    /\ sync.outcome = "false"

AllStages(r) ==
    <<nonFundedFilterName(r), incomingFilterName(r), outgoingFilterName,
      spentFilterName(r), "prepareInputs", "subsetSumWithLimit">>

IsPrefix(s, t) == Len(s) <= Len(t) /\ \A i \in DOMAIN s : s[i] = t[i]

\* C21: getInputs runs its stages in sequence and fails fast: no function
\* is called when an entry check fails; the pending-outgoing filter is
\* called only after the pending-incoming filter left the threshold, the
\* spent filter only after both left it, prepareInputs only after the
\* spent filter resolved with the threshold; after a stage failed nothing
\* later has been called.
C21_StagesInSequenceFailFast ==
    fn = "getInputs" =>
        /\ IsPrefix(calls, AllStages(rev))
        /\ result.error \in {INSUFFICIENT_BALANCE, INVALID_MAX_INPUTS_PROVIDED}
              /\ resolved = 0
              => calls = <<>>
        /\ incomingFilterName(rev) \in Range(calls) => resolved >= 1
        /\ outgoingFilterName \in Range(calls) =>
              /\ resolved >= 1
              /\ TotalBalance(addressDataAfterIncoming) >= threshold
        /\ spentFilterName(rev) \in Range(calls) =>
              /\ resolved >= 1
              /\ TotalBalance(addressDataAfterIncoming) >= threshold
              /\ TotalBalance(addressDataForInputs) >= threshold
        /\ "prepareInputs" \in Range(calls) =>
              /\ resolved = 2
              /\ TotalBalance(unspentAddressData) >= threshold
        /\ result.error = INCOMING_TRANSFERS => Len(calls) = 2
        /\ result.error = ADDRESS_HAS_PENDING_TRANSFERS => Len(calls) = 3
        /\ result.error = FUNDS_AT_SPENT_ADDRESSES => Len(calls) = 4
        /\ result.error = COLLABORATOR_REJECTED =>
              Len(calls) = IF resolved = 0 THEN 1 ELSE 4

\* the pending-incoming stage failed after the entry checks passed
C21_Witness ==
    /\ DoneGetInputs
    /\ result.error = INCOMING_TRANSFERS
    /\ calls = <<nonFundedFilterName(rev), incomingFilterName(rev)>>

\* the first k positions of S
PrefixOf(S, k) == {PositionsInOrder(S)[j] : j \in 1..k}

\* the traversal reaches the combination at the positions S when no exact
\* match stops it before: no proper prefix of S has reached the threshold
Reached(S) ==
    \A k \in 0..(Cardinality(S) - 1) :
        SumOf(BalancesAt(PrefixOf(S, k))) < solver.threshold

\* the combinations a traversal that is never stopped reaches
ReachedCombinations == {S \in SUBSET (1..Len(solver.balances)) : Reached(S)}

\* the positions of the first exact match in the order of the traversal
FirstExactMatch ==
    CHOOSE S \in ExactCombinations :
        \A T \in ExactCombinations \ {S} : MetBefore(S, T)

\* the combinations the traversal reaches up to the first exact match
ReachedUpToMatch ==
    {S \in ReachedCombinations : S = FirstExactMatch \/ MetBefore(S, FirstExactMatch)}

\* C22: once the solver has recorded an exact match the run is over: the
\* call that recorded it is the last call of calculate, exceeded holds what
\* was recorded before it and exactMatches holds that one combination.
C22_SearchStopsAtExactMatch ==
    solver.called /\ closure.hasFoundAnExactMatch =>
        /\ Len(closure.exactMatches) = 1
        /\ closure.callTimes = Cardinality(ReachedUpToMatch)
        /\ Len(closure.exceeded) =
              Cardinality({S \in ReachedUpToMatch :
                              /\ SumOf(BalancesAt(S)) > solver.threshold
                              /\ IntAtMost(Cardinality(S), solver.limit)})

\* an exact match was recorded while combinations were left to visit, one of
\* them another exact match and one of them over the threshold
C22_Witness ==
    /\ solver.called
    /\ closure.hasFoundAnExactMatch
    /\ closure.callTimes < Cardinality(ReachedCombinations)
    /\ Cardinality(ExactCombinations) > 1
    /\ \E S \in ReachedCombinations \ ReachedUpToMatch :
          /\ SumOf(BalancesAt(S)) > solver.threshold
          /\ IntAtMost(Cardinality(S), solver.limit)

\* the combinations of C in the order the traversal meets them
RECURSIVE TraversalOrder(_)
TraversalOrder(C) ==
    IF C = {} THEN <<>>
    ELSE LET first == CHOOSE S \in C : \A T \in C \ {S} : MetBefore(S, T)
         IN <<first>> \o TraversalOrder(C \ {first})

\* the combinations the traversal reaches before it ends
ReachedInRun ==
    IF ExactCombinations = {} THEN ReachedCombinations ELSE ReachedUpToMatch

\* the positions of the combinations over the threshold within the limit that
\* extend no combination that has reached the threshold
OverThresholdCombinations ==
    {S \in ReachedInRun :
        /\ SumOf(BalancesAt(S)) > solver.threshold
        /\ IntAtMost(Cardinality(S), solver.limit)}

\* C23: with a threshold of 1 or more, exceeded holds combinations over the
\* threshold within the limit only, each the balances at increasing
\* positions of the list with no proper prefix that has reached the
\* threshold, and no set of positions twice: it is the sequence of those
\* combinations in the order of the traversal.
C23_ExceededHoldsPrunedOvershoots ==
    solver.called /\ solver.threshold >= 1 =>
        /\ \A i \in DOMAIN closure.exceeded :
              /\ SumOf(closure.exceeded[i]) > solver.threshold
              /\ IntAtMost(Len(closure.exceeded[i]), solver.limit)
              /\ \A k \in 0..(Len(closure.exceeded[i]) - 1) :
                    SumOf(SubSeq(closure.exceeded[i], 1, k)) < solver.threshold
        /\ LET order == TraversalOrder(OverThresholdCombinations)
           IN closure.exceeded = [k \in 1..Len(order) |-> BalancesAt(order[k])]

\* two combinations were recorded and a third, over the threshold within the
\* limit, extends one that had reached the threshold
C23_Witness ==
    /\ solver.called
    /\ solver.threshold >= 1
    /\ Len(closure.exceeded) >= 2
    /\ \E S \in SUBSET (1..Len(solver.balances)) :
          /\ ~Reached(S)
          /\ SumOf(BalancesAt(S)) > solver.threshold
          /\ IntAtMost(Cardinality(S), solver.limit)

\* the places in exceeded of the combinations of the smallest size
SmallestExceeded ==
    {i \in DOMAIN closure.exceeded :
        \A j \in DOMAIN closure.exceeded :
            Len(closure.exceeded[i]) <= Len(closure.exceeded[j])}

\* C24: when prepareInputs falls back to the solver and the solver gives no
\* exact match and some combination over the threshold, the balances of the
\* returned inputs are those of the first recorded combination among the
\* ones of the smallest size in exceeded.
C24_FirstSmallestExceededIsReturned ==
    (/\ DonePrepareInputs
     /\ result.callTimes > 0
     /\ closure.exactMatches = <<>>
     /\ closure.exceeded # <<>>) =>
        /\ ReturnedOk
        /\ result.path = "exceeded"
        /\ \E i \in SmallestExceeded :
              /\ \A j \in SmallestExceeded : i <= j
              /\ ReturnedBalances = closure.exceeded[i]

\* the fallback chose among several combinations of the smallest size
C24_Witness ==
    /\ DonePrepareInputs /\ ReturnedOk
    /\ result.path = "exceeded"
    /\ Cardinality(SmallestExceeded) >= 2
    /\ \E i \in SmallestExceeded : closure.exceeded[i] # ReturnedBalances

\* prepareInputs was called with positive balances and a threshold of 1 or more
PositivePoolAndThreshold ==
    /\ DonePrepareInputs
    /\ threshold >= 1
    /\ \A i \in DOMAIN addressData : addressData[i].balance > 0

\* C25: for positive balances, a threshold of 1 or more and any limit,
\* prepareInputs never throws SOMETHING_WENT_WRONG_DURING_INPUT_SELECTION:
\* an exact match maps back to inputs that sum to the threshold, a chosen
\* combination of exceeded to inputs within the limit that sum to more.
C25_ConsistencyErrorUnreachable ==
    PositivePoolAndThreshold =>
        /\ result.error # SOMETHING_WENT_WRONG_DURING_INPUT_SELECTION
        /\ result.path = "exact" =>
              /\ SumOf(ReturnedBalances) = threshold
              /\ ReturnedBalances = Head(closure.exactMatches)
        /\ result.path = "exceeded" =>
              /\ SumOf(ReturnedBalances) > threshold
              /\ IntAtMost(Len(result.inputs), EffectiveLimit)

\* a combination of exceeded was mapped back to inputs of a pool that holds
\* one of its balances more than once
C25_Witness ==
    /\ PositivePoolAndThreshold
    /\ result.path = "exceeded"
    /\ \E i, j \in DOMAIN addressData :
          /\ i # j
          /\ addressData[i].balance = addressData[j].balance
          /\ addressData[i].balance \in Range(ReturnedBalances)

\* the greedy loop of the call that was made
GreedyLoopOfCall ==
    greedyLoop(eligibleInputs(addressData, DEFAULT_SECURITY), <<>>, 0, threshold)

\* the addresses of positive balance
PositiveAddresses == {i \in DOMAIN addressData : addressData[i].balance > 0}

\* prepareInputs went into its greedy loop with addresses that differ, no
\* balance below 0 and a total that reaches a threshold of 1 or more
GreedyLoopRan ==
    /\ DonePrepareInputs
    /\ threshold >= 1
    /\ TotalBalance(addressData) >= threshold
    /\ result.error \notin {INVALID_MAX_INPUTS_PROVIDED, INPUTS_LIMIT_CANNOT_BE_ZERO}
    /\ \A i, j \in DOMAIN addressData :
          /\ addressData[i].balance >= 0
          /\ i # j => addressData[i].address # addressData[j].address

\* C26: with addresses that differ, balances of 0 or more and a total that
\* reaches a threshold of 1 or more, the greedy loop ends after no more
\* picks than there are addresses of positive balance, finds an input at
\* every pick (head never gives undefined), and every pick adds a positive
\* balance of an address not picked before; it stops at the first pick
\* that reaches the threshold.
C26_GreedyLoopEndsWithinPool ==
    GreedyLoopRan =>
        LET loop == GreedyLoopOfCall
            picked == loop.selected
            sumOfFirst(k) == SumOf([i \in 1..k |-> picked[i].balance])
        IN /\ ~loop.thrown
           /\ result.error # TYPE_ERROR
           /\ Len(picked) >= 1
           /\ Len(picked) <= Cardinality(PositiveAddresses)
           /\ \A i \in DOMAIN picked :
                 /\ picked[i].balance > 0
                 /\ sumOfFirst(i) > sumOfFirst(i - 1)
                 /\ \A j \in DOMAIN picked : i # j => picked[i].address # picked[j].address
           /\ loop.availableBalance = sumOfFirst(Len(picked))
           /\ loop.availableBalance >= threshold
           /\ sumOfFirst(Len(picked) - 1) < threshold
           /\ result.path = "greedy" => result.inputs = picked

\* the loop picked every address of positive balance of a pool that also
\* holds an address of balance 0
C26_Witness ==
    /\ GreedyLoopRan
    /\ Len(GreedyLoopOfCall.selected) = Cardinality(PositiveAddresses)
    /\ Cardinality(PositiveAddresses) >= 3
    /\ \E i \in DOMAIN addressData : addressData[i].balance = 0

\* the last change AppState reported
Change == inactivity.change

\* the application came to the foreground after it had been out of it for
\* timeForInactivity or more of the system's uptime
CameBackAfterInactivity ==
    /\ Change.nextAppState = "active"
    /\ Change.from \in {"inactive", "background"}
    /\ Change.elapsed >= inactivity.props.timeForInactivity

\* C27: when the application comes back to the foreground after
\* timeForInactivity or more of system uptime out of it,
\* handleAppStateChange calls logout, and the uptime it compares is the one
\* getSystemUptime delivers for that change.
C27_LogoutOnReturnAfterInactivity ==
    CameBackAfterInactivity =>
        /\ Change.logout
        /\ Change.uptime = Change.systemUptime
        /\ Change.delivered # NoUptime => Change.uptime = Change.delivered

====
